---- MODULE Spec2Model ----
(***************************************************************************)
(* Model of the /api/generate endpoint (pisodetalkmaker-backend).          *)
(*                                                                         *)
(* Two revisions of the handler exist in the repository:                   *)
(*   rev = "late"  : src/unnamed/part_000 (credential check, GET, minBody) *)
(*   rev = "early" : src/api/generate.ts                                   *)
(* One behaviour of the model is one invocation of handler(req, res).      *)
(* JavaScript runs the handler to its first await without interleaving,    *)
(* so each action is the synchronous code between two suspension points,   *)
(* the catch and finally blocks it runs through included.                  *)
(*                                                                         *)
(* Strings are modelled by their size: [ws, core] is a text with `ws`      *)
(* surrounding white-space characters and `core` characters left after     *)
(* String.prototype.trim.                                                  *)
(***************************************************************************)
EXTENDS Integers, Sequences, FiniteSets

VARIABLES rev, apiKey, req, pc, timer, aborted, call, calls, parsed,
          useSandanOchi, prompt, completion, sent, res

vars == <<rev, apiKey, req, pc, timer, aborted, call, calls, parsed,
          useSandanOchi, prompt, completion, sent, res>>

(***************************************************************************)
(* Program constants.                                                      *)
(***************************************************************************)
ThemeMax == 200
GenreMax == 100
CharactersMax == 200
LengthMin == 50
LengthMax == 1000
LengthDefault == 350
MinBodyFloor == 220
ShortFloorEarly == 120

(***************************************************************************)
(* Bounds of the model: sizes of the sampled texts.                        *)
(***************************************************************************)
PadLen == 2
TitleLen == 3
GarbledLen == 5

Max(a, b) == IF a >= b THEN a ELSE b
Min(a, b) == IF a <= b THEN a ELSE b

\* A text with white space around it, and an absent JSON member.
Str(w, c) == [kind |-> "string", ws |-> w, core |-> c]
Absent == [kind |-> "absent"]
Null == [kind |-> "null"]
Num(n) == [kind |-> "number", val |-> n, int |-> TRUE]
Frac(n) == [kind |-> "number", val |-> n, int |-> FALSE]

\* String.prototype.length and String.prototype.trim
StrLen(s) == s.ws + s.core
Trim(s) == Str(0, s.core)

(***************************************************************************)
(* InputSchema: one zod member each.  z.string().max(n).default("") and    *)
(* z.number().int().min(50).max(1000).default(350): undefined takes the    *)
(* default, everything else must have the type and respect the bound.      *)
(***************************************************************************)
StringFieldOk(f, max) ==
    \/ f.kind = "absent"
    \/ f.kind = "string" /\ StrLen(f) <= max

LengthFieldOk(f) ==
    \/ f.kind = "absent"
    \/ f.kind = "number" /\ f.int /\ f.val >= LengthMin /\ f.val <= LengthMax

StringFieldValue(f) == IF f.kind = "absent" THEN Str(0, 0) ELSE f

LengthFieldValue(f) == IF f.kind = "absent" THEN LengthDefault ELSE f.val

\* InputSchema.safeParse(raw).success
SafeParseSuccess(raw) ==
    /\ raw.kind = "object"
    /\ StringFieldOk(raw.theme, ThemeMax)
    /\ StringFieldOk(raw.genre, GenreMax)
    /\ StringFieldOk(raw.characters, CharactersMax)
    /\ LengthFieldOk(raw.length)

\* InputSchema.safeParse(raw).data
SafeParseData(raw) ==
    [theme |-> StringFieldValue(raw.theme),
     genre |-> StringFieldValue(raw.genre),
     characters |-> StringFieldValue(raw.characters),
     length |-> LengthFieldValue(raw.length)]

\* parsed.error.flatten(): the members that failed, or the form itself
FlattenError(raw) ==
    IF raw.kind # "object" THEN {"_form"}
    ELSE {n \in {"theme"} : ~StringFieldOk(raw.theme, ThemeMax)}
         \cup {n \in {"genre"} : ~StringFieldOk(raw.genre, GenreMax)}
         \cup {n \in {"characters"} : ~StringFieldOk(raw.characters, CharactersMax)}
         \cup {n \in {"length"} : ~LengthFieldOk(raw.length)}

(***************************************************************************)
(* JSON texts.  A text either is no JSON at all (JSON.parse throws a       *)
(* SyntaxError) or denotes a value.                                        *)
(***************************************************************************)
Invalid == [kind |-> "invalid"]
Garbled(w, c) == [kind |-> "text", ws |-> w, core |-> c, json |-> Invalid]
JsonText(w, v) == [kind |-> "text", ws |-> w, core |-> 1, json |-> v]
Literal(name) == [kind |-> "literal", name |-> name]
Arr(items) == [kind |-> "array", items |-> items]
Obj(t, b, m) == [kind |-> "object", title |-> t, body |-> b, meta |-> m]
Meta(s, t) == [kind |-> "object", structure |-> s, techniques |-> t]
BadToString == [kind |-> "object", toString |-> "notCallable"]
Input(t, g, c, l) ==
    [kind |-> "object", theme |-> t, genre |-> g, characters |-> c, length |-> l]
EmptyRecord == Input(Absent, Absent, Absent, Absent)

\* JSON.parse(text): ok = FALSE stands for the SyntaxError it throws
JsonParse(text) ==
    IF text.core = 0 \/ text.json.kind = "invalid"
    THEN [ok |-> FALSE, name |-> "SyntaxError"]
    ELSE [ok |-> TRUE, value |-> text.json]

\* text.trim() on a text that carries its JSON reading
TrimText(text) == [text EXCEPT !.ws = 0]

\* x ?? y
Coalesce(x, y) == IF x.kind \in {"absent", "null"} THEN y ELSE x

\* value[name] of a parsed JSON value that is not null
Member(v, name) ==
    IF v.kind = "object" /\ name \in DOMAIN v THEN v[name] ELSE Absent

Digits(n) == IF n < 10 THEN 1 ELSE IF n < 100 THEN 2 ELSE IF n < 1000 THEN 3 ELSE 4

\* Can .toString() be called on v, and what does it give
ToStringThrows(v) == v.kind = "object" /\ "toString" \in DOMAIN v
ToString(v) ==
    CASE v.kind = "string" -> v
      [] v.kind = "number" -> Str(0, Digits(v.val))
      [] v.kind = "array" -> Str(0, Len(v.items))
      [] OTHER -> Str(0, 15)

\* Array.isArray(x) ? x : []
ArrayOrEmpty(x) == IF x.kind = "array" THEN x.items ELSE <<>>

(***************************************************************************)
(* Decoding of req.body.                                                   *)
(***************************************************************************)
\* part_000: typeof req.body === "string" && req.body.length
\*             ? JSON.parse(req.body) : (req.body ?? {})
DecodeLate(body) ==
    IF body.kind = "text" /\ StrLen(body) > 0
    THEN JsonParse(body)
    ELSE [ok |-> TRUE, value |-> Coalesce(body, EmptyRecord)]

\* generate.ts: typeof req.body === "string"
\*             ? JSON.parse(req.body || "{}") : (req.body ?? {})
DecodeEarly(body) ==
    IF body.kind = "text"
    THEN IF StrLen(body) > 0 THEN JsonParse(body)
         ELSE [ok |-> TRUE, value |-> EmptyRecord]
    ELSE [ok |-> TRUE, value |-> Coalesce(body, EmptyRecord)]

Decode(r, body) == IF r = "late" THEN DecodeLate(body) ELSE DecodeEarly(body)

(***************************************************************************)
(* Prompt arithmetic.  Math.round(length * k) on an integer length, with   *)
(* k a decimal fraction: floor(length * k + 1/2).                          *)
(***************************************************************************)
MaxTokensLate(length) == Min(2400, Max(600, (24 * length + 5) \div 10))
MaxTokensEarly(length) == Min(2200, Max(500, (22 * length + 5) \div 10))

\* Math.max(220, Math.round(length * 0.75))
MinBody(length) == Max(MinBodyFloor, (3 * length + 2) \div 4)

\* part_000: body.length < minBody * 0.8
IsShortLate(n, length) == 5 * n < 4 * MinBody(length)

\* generate.ts: body.length < Math.max(120, Math.round(length * 0.6))
IsShortEarly(n, length) == n < Max(ShortFloorEarly, (6 * length + 5) \div 10)

\* Mutant: <= for < in the comparison with the threshold
IsShortInclusive(r, n, length) ==
    IF r = "late" THEN 5 * n <= 4 * MinBody(length)
    ELSE n <= Max(ShortFloorEarly, (6 * length + 5) \div 10)

IsShort(r, n, length) ==
    IF r = "late" THEN IsShortLate(n, length) ELSE IsShortEarly(n, length)

\* The length instruction of the user prompt and the token budget
BuildPrompt(r, data, sandan) ==
    IF r = "late"
    THEN [kind |-> "window", lo |-> MinBody(data.length), hi |-> data.length,
          cap |-> 1000, maxTokens |-> MaxTokensLate(data.length),
          sandan |-> sandan, themeGiven |-> StrLen(data.theme) > 0]
    ELSE [kind |-> "approx", about |-> data.length,
          cap |-> 1000, maxTokens |-> MaxTokensEarly(data.length),
          sandan |-> sandan, themeGiven |-> StrLen(data.theme) > 0]

(***************************************************************************)
(* Sampled inputs: what the client sends and what the provider answers.    *)
(***************************************************************************)
ThemeSamples ==
    {Absent, Str(0, 0), Str(0, ThemeMax), Str(0, ThemeMax + 1), Num(7)}
GenreSamples == {Absent, Str(0, GenreMax), Str(0, GenreMax + 1)}
CharactersSamples ==
    {Absent, Str(0, CharactersMax), Str(0, CharactersMax + 1), Null}
LengthSamples ==
    {Absent, Num(LengthMin - 1), Num(LengthMin), Num(298), Num(300),
     Num(LengthMax), Num(LengthMax + 1), Frac(LengthDefault), Str(0, 3)}

Inputs ==
    {Input(t, Absent, Absent, l) : t \in ThemeSamples, l \in LengthSamples}
    \cup {Input(Absent, g, c, Absent) :
             g \in GenreSamples, c \in CharactersSamples}
    \cup {Input(Str(0, ThemeMax), Str(0, GenreMax), c, l) :
             c \in CharactersSamples, l \in LengthSamples}

\* Bodies that arrive as a JSON string (Android client) rather than parsed
EncodedInputs ==
    {Input(t, Absent, Absent, l) : t \in ThemeSamples, l \in LengthSamples}

Bodies ==
    Inputs
    \cup {JsonText(0, v) : v \in EncodedInputs}
    \cup {Absent, Null, Garbled(0, 0), Garbled(PadLen, 0),
          Garbled(0, GarbledLen), JsonText(0, Num(7)), JsonText(0, Null),
          Num(7), Arr(<<>>)}

Requests == [method : {"OPTIONS", "GET", "PUT"}, body : {Absent}]
            \cup [method : {"POST"}, body : Bodies]

BodyLens == {0, 10, 30, 119, 120, 175, 176, 178, 179, 180, 210, 211, 600}

TitleSamples ==
    {Absent, Null, Str(PadLen, 0), Str(PadLen, TitleLen), Num(42), BadToString}
BodySamples ==
    {Str(0, n) : n \in BodyLens}
    \cup {Absent, Str(PadLen, 10), Str(PadLen, 179), Str(PadLen, 600)}
Labels4 == <<"intro", "build", "twist", "payoff">>
Labels5 == <<"twist", "repeat", "exaggerate", "contrast", "sandan">>
MetaSamples ==
    {Absent, Num(1), Meta(Absent, Str(0, 1)),
     Meta(Arr(<<>>), Arr(<<>>)), Meta(Arr(Labels4), Arr(Labels5))}

\* completion.choices?.[0]?.message?.content
Contents ==
    {JsonText(PadLen, Obj(t, b, Meta(Arr(Labels4), Arr(Labels5)))) :
        t \in TitleSamples, b \in BodySamples}
    \cup {JsonText(0, Obj(t, b, m)) :
             t \in {Absent, Str(0, TitleLen)},
             b \in {Str(0, 10), Str(0, 600)}, m \in MetaSamples}
    \cup {JsonText(0, v) : v \in {Null, Num(7), Arr(<<>>), Str(0, 3)}}
    \cup {Absent, Null, Garbled(0, 0), Garbled(PadLen, 0),
          Garbled(PadLen, GarbledLen)}

\* What client.chat.completions.create rejects with on its own account
ProviderErrors ==
    {[name |-> "APIError", message |-> "429 quota"],
     [name |-> "APIConnectionError", message |-> "Connection error."],
     [name |-> "Error", message |-> "<undefined>"]}

\* What it rejects with once abort.signal is aborted
AbortError == [name |-> "AbortError", message |-> "Request was aborted."]
NoError == [name |-> "", message |-> ""]

(***************************************************************************)
(* The response object.                                                    *)
(***************************************************************************)
NoResponse ==
    [status |-> 0, shape |-> "none", allow |-> "", error |-> "",
     detail |-> {}, title |-> Absent, body |-> Absent,
     structure |-> <<>>, techniques |-> <<>>, note |-> ""]

\* res.status(204).end()
EndRes(status) == [NoResponse EXCEPT !.status = status, !.shape = "empty"]

\* res.status(200).json({ ok: true, route: "/api/generate" })
HealthRes == [NoResponse EXCEPT !.status = 200, !.shape = "health"]

\* res.status(code).json({ error })
ErrorRes(status, message, allow) ==
    [NoResponse EXCEPT !.status = status, !.shape = "error",
                       !.error = message, !.allow = allow]

\* res.status(400).json({ error: "Invalid input", detail })
InvalidRes(detail) ==
    [NoResponse EXCEPT !.status = 400, !.shape = "invalid",
                       !.error = "Invalid input", !.detail = detail]

\* res.status(200).json({ title, body, meta: { structure, techniques }, note })
ResultRes(title, body, structure, techniques, note) ==
    [NoResponse EXCEPT !.status = 200, !.shape = "result", !.title = title,
                       !.body = body, !.structure = structure,
                       !.techniques = techniques, !.note = note]

\* Mutant: the catch block does not tell a timeout from another failure
ErrorCodeNever504(err) == 500

\* err?.name === "AbortError" ? 504 : 500
ErrorCode(err) == IF err.name = "AbortError" THEN 504 ELSE 500

\* err?.message ?? "Server error"
ErrorMessage(err) ==
    IF err.message = "<undefined>" THEN "Server error" ELSE err.message

\* catch (err) { ... }
CatchRes(err) == ErrorRes(ErrorCode(err), ErrorMessage(err), "")

\* Mutant: no clearTimeout on the way out
ClearTimeoutForgotten(t) == t

\* finally { clearTimeout(timer) }: a timer that has fired stays fired
ClearTimeout(t) == IF t = "pending" THEN "cleared" ELSE t

(***************************************************************************)
(* Interpretation of the completion.                                       *)
(***************************************************************************)
\* (completion.choices?.[0]?.message?.content ?? "").trim()
ContentOf(c) == TrimText(Coalesce(c, Garbled(0, 0)))

\* The content as the string it is, for the body of the fallback result
AsString(text) == Str(text.ws, text.core)

\* (payload.title ?? "").toString().trim(), the same for body
TitleOf(payload) == Trim(ToString(Coalesce(Member(payload, "title"), Str(0, 0))))
BodyOf(payload) == Trim(ToString(Coalesce(Member(payload, "body"), Str(0, 0))))

\* payload.meta ?? {}
MetaOf(payload) == Coalesce(Member(payload, "meta"), [kind |-> "object"])
StructureOf(payload) == ArrayOrEmpty(Member(MetaOf(payload), "structure"))
TechniquesOf(payload) == ArrayOrEmpty(Member(MetaOf(payload), "techniques"))

\* Reading a property of null, or calling a toString that is no function,
\* throws a TypeError inside the outer try
NormalizeThrows(payload) ==
    \/ payload.kind = "null"
    \/ ToStringThrows(Coalesce(Member(payload, "title"), Str(0, 0)))
    \/ ToStringThrows(Coalesce(Member(payload, "body"), Str(0, 0)))

TypeError == [name |-> "TypeError", message |-> "Cannot read properties of null"]
SyntaxError == [name |-> "SyntaxError", message |-> "Unexpected token"]

FallbackRes(content) ==
    ResultRes(Literal("TITLE_NOT_OBTAINED"), AsString(content), <<>>, <<>>,
              "NOTE_FALLBACK")

\* title || "(short, regenerate)"
TitleOrPlaceholder(title) ==
    IF StrLen(title) = 0 THEN Literal("SHORT_REGENERATE") ELSE title

\* Mutant: the short-output result is built like the fallback result
ShortResLosesMeta(payload) ==
    ResultRes(TitleOrPlaceholder(TitleOf(payload)), BodyOf(payload),
              <<>>, <<>>, "NOTE_SHORT")

ShortRes(payload) ==
    ResultRes(TitleOrPlaceholder(TitleOf(payload)), BodyOf(payload),
              StructureOf(payload), TechniquesOf(payload), "NOTE_SHORT")

OkRes(payload) ==
    ResultRes(TitleOf(payload), BodyOf(payload),
              StructureOf(payload), TechniquesOf(payload), "")

\* Line 99 of generate.ts clears the timer as soon as the await returns
TimerAfterAwait(r, t) == IF r = "early" THEN ClearTimeout(t) ELSE t

(***************************************************************************)
(* The handler.                                                            *)
(***************************************************************************)
NoCall == [state |-> "none", err |-> NoError]

Init ==
    /\ rev \in {"late", "early"}
    /\ apiKey \in BOOLEAN
    /\ req \in Requests
    /\ pc = "start"
    /\ timer = "unarmed"
    /\ aborted = FALSE
    /\ call = NoCall
    /\ calls = 0
    /\ parsed = [ok |-> FALSE]
    /\ useSandanOchi = FALSE
    /\ prompt = [kind |-> "none"]
    /\ completion = [kind |-> "none"]
    /\ sent = 0
    /\ res = NoResponse

\* The handler sends r and returns without having armed the timer
ReturnEarly(r) ==
    /\ res' = r
    /\ sent' = sent + 1
    /\ pc' = "done"
    /\ UNCHANGED <<rev, apiKey, req, timer, aborted, call, calls, parsed,
                   useSandanOchi, prompt, completion>>

\* The handler sends r from inside try/catch and returns through finally
ReturnFinally(r, t) ==
    /\ res' = r
    /\ sent' = sent + 1
    /\ pc' = "done"
    /\ timer' = ClearTimeout(t)

\* if (req.method === "OPTIONS") return res.status(204).end()
Options ==
    /\ pc = "start"
    /\ req.method = "OPTIONS"
    /\ ReturnEarly(EndRes(204))

\* part_000 only: if (req.method === "GET") return res.status(200).json(...)
Get ==
    /\ pc = "start"
    /\ rev = "late"
    /\ req.method = "GET"
    /\ ReturnEarly(HealthRes)

\* if (req.method !== "POST") { setHeader("Allow", ...); return 405 }
MethodNotAllowed ==
    /\ pc = "start"
    /\ req.method # "OPTIONS"
    /\ ~(rev = "late" /\ req.method = "GET")
    /\ req.method # "POST"
    /\ ReturnEarly(ErrorRes(405, "Method Not Allowed",
                            IF rev = "late" THEN "POST, OPTIONS, GET" ELSE "POST"))

\* part_000 only: if (!apiKey) return res.status(500).json(...)
MissingKey ==
    /\ pc = "start"
    /\ req.method = "POST"
    /\ rev = "late"
    /\ ~apiKey
    /\ ReturnEarly(ErrorRes(500, "OPENAI_API_KEY is not set on server.", ""))

\* A POST gets as far as arming the timer
PostEntered ==
    /\ pc = "start"
    /\ req.method = "POST"
    /\ rev = "late" => apiKey

\* JSON.parse(req.body) throws: catch, then finally
PostDecodeError ==
    /\ PostEntered
    /\ ~Decode(rev, req.body).ok
    /\ ReturnFinally(CatchRes(SyntaxError), "pending")
    /\ UNCHANGED <<rev, apiKey, req, aborted, call, calls, parsed,
                   useSandanOchi, prompt, completion>>

\* if (!parsed.success) return res.status(400).json(...), then finally
PostInvalid ==
    /\ PostEntered
    /\ Decode(rev, req.body).ok
    /\ ~SafeParseSuccess(Decode(rev, req.body).value)
    /\ ReturnFinally(InvalidRes(FlattenError(Decode(rev, req.body).value)),
                     "pending")
    /\ UNCHANGED <<rev, apiKey, req, aborted, call, calls, parsed,
                   useSandanOchi, prompt, completion>>

\* Valid input: build the prompt, issue the call and suspend at the await
PostIssueCall ==
    /\ PostEntered
    /\ Decode(rev, req.body).ok
    /\ SafeParseSuccess(Decode(rev, req.body).value)
    /\ \E sandan \in BOOLEAN :
          /\ useSandanOchi' = sandan
          /\ prompt' = BuildPrompt(rev, SafeParseData(Decode(rev, req.body).value),
                                   sandan)
    /\ parsed' = [ok |-> TRUE, data |-> SafeParseData(Decode(rev, req.body).value)]
    /\ timer' = "pending"
    /\ call' = [state |-> "pending", err |-> NoError]
    /\ calls' = calls + 1
    /\ pc' = "await"
    /\ UNCHANGED <<rev, apiKey, req, aborted, completion, sent, res>>

\* Mutant: the timer callback runs but does not abort the call
DeadlineFiresWithoutAbort ==
    /\ pc = "await"
    /\ timer = "pending"
    /\ call.state = "pending"
    /\ timer' = "fired"
    /\ UNCHANGED <<rev, apiKey, req, pc, aborted, call, calls, parsed,
                   useSandanOchi, prompt, completion, sent, res>>

\* setTimeout(() => abort.abort(), 30_000) runs: the pending call rejects
DeadlineFires ==
    /\ pc = "await"
    /\ timer = "pending"
    /\ call.state = "pending"
    /\ timer' = "fired"
    /\ aborted' = TRUE
    /\ call' = [state |-> "rejected", err |-> AbortError]
    /\ UNCHANGED <<rev, apiKey, req, pc, calls, parsed, useSandanOchi,
                   prompt, completion, sent, res>>

\* The provider fails on its own account
ProviderRejects ==
    /\ pc = "await"
    /\ call.state = "pending"
    /\ \E e \in ProviderErrors : call' = [state |-> "rejected", err |-> e]
    /\ UNCHANGED <<rev, apiKey, req, pc, timer, aborted, calls, parsed,
                   useSandanOchi, prompt, completion, sent, res>>

\* The await throws: catch (err), then finally
HandlerCatch ==
    /\ pc = "await"
    /\ call.state = "rejected"
    /\ ReturnFinally(CatchRes(call.err), timer)
    /\ UNCHANGED <<rev, apiKey, req, aborted, call, calls, parsed,
                   useSandanOchi, prompt, completion>>

\* The provider answers with content c and the handler resumes
Resolved(c) ==
    /\ pc = "await"
    /\ call.state = "pending"
    /\ call' = [state |-> "resolved", err |-> NoError]
    /\ completion' = c
    /\ UNCHANGED <<rev, apiKey, req, aborted, calls, parsed,
                   useSandanOchi, prompt>>

\* JSON.parse(content) throws: the inner catch returns the fallback
ResumeFallback ==
    \E c \in Contents :
       /\ Resolved(c)
       /\ ~JsonParse(ContentOf(c)).ok
       /\ ReturnFinally(FallbackRes(ContentOf(c)), TimerAfterAwait(rev, timer))

\* The normalisation throws a TypeError: outer catch
ResumeThrows ==
    \E c \in Contents :
       /\ Resolved(c)
       /\ JsonParse(ContentOf(c)).ok
       /\ NormalizeThrows(JsonParse(ContentOf(c)).value)
       /\ ReturnFinally(CatchRes(TypeError), TimerAfterAwait(rev, timer))

\* The body is below the threshold: result with a note
ResumeShort ==
    \E c \in Contents :
       /\ Resolved(c)
       /\ JsonParse(ContentOf(c)).ok
       /\ ~NormalizeThrows(JsonParse(ContentOf(c)).value)
       /\ IsShort(rev, StrLen(BodyOf(JsonParse(ContentOf(c)).value)),
                  parsed.data.length)
       /\ ReturnFinally(ShortRes(JsonParse(ContentOf(c)).value),
                        TimerAfterAwait(rev, timer))

\* The plain result
ResumeOk ==
    \E c \in Contents :
       /\ Resolved(c)
       /\ JsonParse(ContentOf(c)).ok
       /\ ~NormalizeThrows(JsonParse(ContentOf(c)).value)
       /\ ~IsShort(rev, StrLen(BodyOf(JsonParse(ContentOf(c)).value)),
                   parsed.data.length)
       /\ ReturnFinally(OkRes(JsonParse(ContentOf(c)).value),
                        TimerAfterAwait(rev, timer))

Next ==
    \/ Options
    \/ Get
    \/ MethodNotAllowed
    \/ MissingKey
    \/ PostDecodeError
    \/ PostInvalid
    \/ PostIssueCall
    \/ DeadlineFires
    \/ ProviderRejects
    \/ HandlerCatch
    \/ ResumeFallback
    \/ ResumeThrows
    \/ ResumeShort
    \/ ResumeOk

Spec == Init /\ [][Next]_vars

\* The event loop runs every callback and continuation that is ready, and
\* the 30 s timer fires unless it is cleared first.
\* The steps the runtime takes by itself once they are ready.  The provider's
\* reply (ProviderRejects, Resume...) is the environment's and may never come.
HandlerStep ==
    \/ Options
    \/ Get
    \/ MethodNotAllowed
    \/ MissingKey
    \/ PostDecodeError
    \/ PostInvalid
    \/ PostIssueCall
    \/ HandlerCatch

FairSpec == Spec /\ WF_vars(HandlerStep) /\ WF_vars(DeadlineFires)

TypeOK ==
    /\ pc \in {"start", "await", "done"}
    /\ timer \in {"unarmed", "pending", "cleared", "fired"}
    /\ sent \in 0..2
    /\ calls \in 0..2

(***************************************************************************)
(* Vocabulary of the properties.                                           *)
(***************************************************************************)
Returned == pc = "done"
Completed == call.state = "resolved"
CredentialOk == rev = "late" => apiKey
PostReachedTry == req.method = "POST" /\ CredentialOk

\* The trimmed text the provider returned and its JSON reading
Content == ContentOf(completion)
Unparseable == ~JsonParse(Content).ok
Payload == JsonParse(Content).value

\* The text is JSON, but no object of the instructed schema
NotAnObject == ~Unparseable /\ Payload.kind # "object"

\* The text is an object whose members have the instructed types
WellFormed ==
    /\ ~Unparseable
    /\ Payload.kind = "object"
    /\ Payload.title.kind = "string"
    /\ Payload.body.kind = "string"
    /\ Payload.meta.kind = "object"
    /\ Payload.meta.structure.kind = "array"
    /\ Payload.meta.techniques.kind = "array"

\* The text was read as a structured object (the normalisation ran through)
Interpreted == ~Unparseable /\ ~NormalizeThrows(Payload)

\* The short-output threshold of each revision, on a trimmed body of n chars
BelowThreshold(n, length) ==
    IF rev = "late"
    THEN 5 * n < 4 * Max(220, (3 * length + 2) \div 4)
    ELSE n < Max(120, (6 * length + 5) \div 10)

\* What the client sent, before any decoding
Sent == IF req.body.kind = "text" THEN req.body.json ELSE req.body
NoBody ==
    \/ req.body.kind \in {"absent", "null"}
    \/ req.body.kind = "text" /\ StrLen(req.body) = 0
Undecodable ==
    req.body.kind = "text" /\ StrLen(req.body) > 0 /\ req.body.json.kind = "invalid"
StringMemberOk(f, max) == f.kind = "string" /\ f.ws + f.core <= max
LengthMemberOk(f) == f.kind = "number" /\ f.int /\ f.val \in 50..1000
MembersOk ==
    /\ Sent.kind = "object"
    /\ Sent.theme.kind = "absent" \/ StringMemberOk(Sent.theme, 200)
    /\ Sent.genre.kind = "absent" \/ StringMemberOk(Sent.genre, 100)
    /\ Sent.characters.kind = "absent" \/ StringMemberOk(Sent.characters, 200)
    /\ Sent.length.kind = "absent" \/ LengthMemberOk(Sent.length)
SomeOmitted ==
    /\ Sent.kind = "object"
    /\ \E n \in {"theme", "genre", "characters", "length"} : Sent[n].kind = "absent"
MalformedInput ==
    \/ Undecodable
    \/ ~NoBody /\ ~Undecodable /\ ~MembersOk
ValidInput == NoBody \/ (~Undecodable /\ MembersOk)

\* The record the validator is documented to produce
Defaulted(f, d) == IF f.kind = "absent" THEN d ELSE f
ExpectedData ==
    IF NoBody
    THEN [theme |-> Str(0, 0), genre |-> Str(0, 0),
          characters |-> Str(0, 0), length |-> 350]
    ELSE [theme |-> Defaulted(Sent.theme, Str(0, 0)),
          genre |-> Defaulted(Sent.genre, Str(0, 0)),
          characters |-> Defaulted(Sent.characters, Str(0, 0)),
          length |-> Defaulted(Sent.length, Num(350)).val]

(***************************************************************************)
(* C1.  A completed call whose text does not satisfy the required          *)
(* structure (unparseable, empty, or JSON that is no object) is answered   *)
(* with 200 and a non-empty note, the body being the raw trimmed text when *)
(* the text cannot be parsed; never with 500.                              *)
(***************************************************************************)
C1_MalformedOutputIs200WithNote ==
    (Returned /\ Completed /\ (Unparseable \/ NotAnObject)) =>
        /\ res.status = 200
        /\ res.note # ""
        /\ Unparseable => res.body = Str(0, Content.core)

(***************************************************************************)
(* C2.  When the deadline fires on a pending call the call is aborted and  *)
(* the answer is 504 with a message; any other failure of the call is 500; *)
(* 504 is given only when the deadline aborted the call.                   *)
(***************************************************************************)
C2_TimeoutIs504OtherFailureIs500 ==
    /\ timer = "fired" =>
          aborted /\ call.state = "rejected" /\ call.err.name = "AbortError"
    /\ Returned =>
          /\ aborted => res.status = 504 /\ res.shape = "error" /\ res.error # ""
          /\ (call.state = "rejected" /\ ~aborted) =>
                res.status = 500 /\ res.shape = "error"
          /\ res.status = 504 => aborted /\ timer = "fired"

C2_Witness ==
    Returned /\ res.status = 504 /\ aborted /\ calls = 1

(***************************************************************************)
(* C3.  Once the handler has returned, the deadline timer is not pending,  *)
(* whichever exit path was taken after it was armed.                       *)
(***************************************************************************)
C3_NoTimerPendingAfterReturn ==
    Returned =>
        /\ timer # "pending"
        /\ PostReachedTry => timer \in {"cleared", "fired"}

C3_Witness ==
    Returned /\ timer = "cleared" /\ res.note = "NOTE_FALLBACK"

(***************************************************************************)
(* C4.  Exactly one external call for every valid POST, none for a request *)
(* that ends in a validation failure, a missing credential, OPTIONS, GET   *)
(* or 405; never more than one.                                            *)
(***************************************************************************)
C4_OneCallPerValidPost ==
    /\ calls <= 1
    /\ Returned =>
          /\ (PostReachedTry /\ ValidInput) => calls = 1
          /\ (res.status \in {400, 204, 405} \/ res.shape = "health"
              \/ (req.method = "POST" /\ ~CredentialOk)) => calls = 0

(***************************************************************************)
(* C5.  Every POST with malformed or out-of-range input (undecodable       *)
(* string body, non-object payload, wrong-typed member, too long a string, *)
(* bad length) is answered 400 "Invalid input" with a breakdown, and no    *)
(* external call is made.                                                  *)
(***************************************************************************)
C5_MalformedInputIs400 ==
    (Returned /\ PostReachedTry /\ MalformedInput) =>
        /\ res.status = 400
        /\ res.error = "Invalid input"
        /\ res.detail # {}
        /\ calls = 0

(***************************************************************************)
(* C6.  A POST that omits some or all members, an absent or empty-string   *)
(* body included, validates, with the defaults for the omitted members and *)
(* the supplied values for the others.                                     *)
(***************************************************************************)
C6_OmittedMembersTakeDefaults ==
    (Returned /\ PostReachedTry /\ (NoBody \/ (SomeOmitted /\ MembersOk))) =>
        /\ parsed.ok
        /\ parsed.data = ExpectedData

(***************************************************************************)
(* C7.  As claimed: when the output was read as a structured object and    *)
(* the body is below the short-output threshold, the answer is 200 with    *)
(* title, body, meta.structure and meta.techniques exactly as parsed, plus *)
(* a note.                                                                 *)
(***************************************************************************)
ShortCase ==
    /\ Returned
    /\ Completed
    /\ Interpreted
    /\ BelowThreshold(StrLen(BodyOf(Payload)), parsed.data.length)

C7_ShortOutputUnchanged ==
    ShortCase =>
        /\ res.status = 200
        /\ res.shape = "result"
        /\ res.title = TitleOf(Payload)
        /\ res.body = BodyOf(Payload)
        /\ res.structure = StructureOf(Payload)
        /\ res.techniques = TechniquesOf(Payload)
        /\ res.note = "NOTE_SHORT"

(***************************************************************************)
(* C7, amended.  In that case the answer is 200 with body, meta.structure  *)
(* and meta.techniques exactly as parsed and a note recommending           *)
(* regeneration; the title is the parsed title, except that an empty       *)
(* parsed title is replaced by a fixed placeholder.                        *)
(***************************************************************************)
C7_ShortOutputTitlePlaceholder ==
    ShortCase =>
        /\ res.status = 200
        /\ res.shape = "result"
        /\ res.title = IF TitleOf(Payload).core = 0
                       THEN Literal("SHORT_REGENERATE")
                       ELSE TitleOf(Payload)
        /\ res.body = BodyOf(Payload)
        /\ res.structure = StructureOf(Payload)
        /\ res.techniques = TechniquesOf(Payload)
        /\ res.note = "NOTE_SHORT"

C7_Witness ==
    /\ ShortCase
    /\ res.title = Literal("SHORT_REGENERATE")
    /\ res.body = Str(0, 10)
    /\ res.structure = Labels4
    /\ parsed.data.length = 350

(***************************************************************************)
(* C8.  As claimed: a well-formed structured response whose trimmed body   *)
(* has at least 60% of the requested length is answered 200 with both meta *)
(* members arrays and no note; a note occurs only on the parse-fallback    *)
(* and the short-output paths.                                             *)
(***************************************************************************)
NoteOnlyWhenDegraded ==
    (Returned /\ res.note # "") =>
        /\ Completed
        /\ \/ Unparseable /\ res.note = "NOTE_FALLBACK"
           \/ /\ Interpreted
              /\ BelowThreshold(StrLen(BodyOf(Payload)), parsed.data.length)
              /\ res.note = "NOTE_SHORT"

PlainResult ==
    /\ res.status = 200
    /\ res.shape = "result"
    /\ res.structure = Payload.meta.structure.items
    /\ res.techniques = Payload.meta.techniques.items
    /\ res.note = ""

C8_SixtyPercentHasNoNote ==
    /\ (Returned /\ Completed /\ WellFormed
        /\ 10 * Payload.body.core >= 6 * parsed.data.length) => PlainResult
    /\ NoteOnlyWhenDegraded

(***************************************************************************)
(* C8, amended.  A well-formed structured response whose trimmed body      *)
(* reaches the revision's short-output threshold, max(120, round(0.6 *     *)
(* length)) in generate.ts and 0.8 * max(220, round(0.75 * length)) in the *)
(* later revision, is answered 200 with both meta members arrays and no    *)
(* note; a note occurs only on the parse-fallback and short-output paths.  *)
(***************************************************************************)
C8_ThresholdReachedHasNoNote ==
    /\ (Returned /\ Completed /\ WellFormed
        /\ ~BelowThreshold(Payload.body.core, parsed.data.length)) => PlainResult
    /\ NoteOnlyWhenDegraded

C8_Witness ==
    /\ Returned
    /\ Completed
    /\ WellFormed
    /\ parsed.data.length = 300
    /\ Payload.body.core = 180
    /\ res.note = ""
    /\ res.techniques = Labels5

(***************************************************************************)
(* C9.  The length window written into the user instruction is well        *)
(* formed: its lower bound minBody is at most length, and its upper bound  *)
(* length is at most the cap of 1000.                                      *)
(***************************************************************************)
C9_WindowWellFormed ==
    prompt.kind = "window" =>
        /\ prompt.lo <= prompt.hi
        /\ prompt.hi <= prompt.cap

(***************************************************************************)
(* C10.  Every request is eventually answered, exactly once: no second     *)
(* response is ever sent, the handler has returned exactly when one was    *)
(* sent, and it does return, also when the provider never replies.         *)
(***************************************************************************)
C10_ExactlyOneResponse ==
    /\ [](sent <= 1 /\ (Returned <=> sent = 1))
    /\ <>(Returned /\ sent = 1 /\ res.status # 0)

C10_Witness ==
    Returned /\ sent = 1 /\ timer = "fired" /\ completion.kind = "none"

====
